---- MODULE Spec2Model ----
(***************************************************************************)
(* A model of gherkin-rust's AST construction layer (src/src/lib.rs):      *)
(* the text normalizer dedent, the step context resolver                   *)
(* StepType::new_with_context with Step::vec_from_rule, the Table, tags,   *)
(* Examples, Scenario, Background and Feature builders, and                *)
(* Feature::try_from.                                                      *)
(*                                                                         *)
(* Text that the code inspects character by character (descriptions,      *)
(* docstrings, table fields) is a sequence of one-character strings.       *)
(* Text that the code only copies (names, step bodies, tag tokens, raw     *)
(* keywords) is a TLA+ string.                                             *)
(*                                                                         *)
(* The grammar (mod parser, a pest grammar) is not part of the source      *)
(* files; the shape of the parse trees it hands to the builders is taken   *)
(* from the grammar description and is kept in the definitions of the      *)
(* section "Parse trees".                                                  *)
(***************************************************************************)
EXTENDS Integers, Sequences, FiniteSets, TLC

VARIABLES
    \* ---- Feature::try_from and the Feature builder pass ----
    pc,          \* position of Feature::try_from / the loop of Feature::from
    builder,     \* FeatureBuilder: the fields set so far
    scenarios,   \* the local `scenarios` vector of Feature::from
    outcome,     \* how try_from ended: "none" while running, "Ok", "Err", "Panic"
    feature,     \* the Feature returned on Ok
    pair,        \* the parse-tree child the loop handled last
    \* ---- dedent ----
    dd_pc,       \* "in", "once" (dedent applied), "twice" (applied to its result)
    dd_in,       \* the text handed to dedent
    dd_prefix,   \* the final value of `prefix`
    dd_lines,    \* the vector collected by the rebuild pass, before join
    dd_out,      \* dedent(dd_in)
    dd_out2,     \* dedent(dd_out)
    dd_doc,      \* the docstring of the Step built from a step holding dd_in
    \* ---- Table::from, reached directly, through a step or through examples ----
    tb_pc,       \* "in" or "built"
    tb_in,       \* the datatable node
    tb_via,      \* "table", "step" or "examples"
    tb_out,      \* the Table built, or Panic
    \* ---- parse_tags ----
    tg_pc,       \* "in" or "parsed"
    tg_in,       \* the tags node
    tg_out       \* the vector returned

feature_vars == <<pc, builder, scenarios, outcome, feature, pair>>
dedent_vars  == <<dd_pc, dd_in, dd_prefix, dd_lines, dd_out, dd_out2, dd_doc>>
table_vars   == <<tb_pc, tb_in, tb_via, tb_out>>
tags_vars    == <<tg_pc, tg_in, tg_out>>
vars == <<feature_vars, dedent_vars, table_vars, tags_vars>>

----------------------------------------------------------------------------
(* Bounds of the model.                                                    *)

\* longest text handed to dedent
MaxLen == 5
\* step nodes in one document (Background and all Scenarios together)
MaxSteps == 3
\* scenario nodes in one document
MaxScenarios == 2
\* children of one tags node
MaxTags == 4
\* fields of one table line
MaxCols == 2
\* table_row lines of one datatable
MaxRows == 2

----------------------------------------------------------------------------
(* Values shared by the builders.                                          *)

\* Option<T>: None, or Some(v)
None == <<"None">>
Some(v) == <<"Some", v>>
IsSome(o) == o[1] = "Some"

\* a field of a derive_builder builder: never set, or set to v
Unset == <<"Unset">>
Set(v) == <<"Set", v>>
IsSet(f) == f[1] = "Set"

\* what a builder function does: return v, or unwind with a panic
\* (panic!, or expect on a failed build)
Ok(v) == <<"Ok", v>>
Panicked == <<"Panic">>
IsOk(r) == r[1] = "Ok"
IsPanic(r) == r[1] = "Panic"

\* the element of a one-element set; The({e(x) : x \in {v}}) is e(v) with v
\* computed once, where LET x == v IN e(x) computes v at every use of x
The(S) == CHOOSE x \in S : TRUE

----------------------------------------------------------------------------
(* Characters and &str helpers of the standard library, as the code uses   *)
(* them.                                                                   *)

SP == " "
TAB == "\t"
NL == "\n"
CR == "\r"
FF == "\f"
NBSP == " "

\* the other characters with the Unicode property White_Space, each named by
\* its code point where a string of the model cannot hold the character
OtherWhitespace ==
    {"U+000B", FF, "U+0085", NBSP, "U+1680",
     "U+2000", "U+2001", "U+2002", "U+2003", "U+2004", "U+2005", "U+2006",
     "U+2007", "U+2008", "U+2009", "U+200A",
     "U+2028", "U+2029", "U+202F", "U+205F", "U+3000"}

\* char::is_whitespace: the Unicode property White_Space
Whitespace == {SP, TAB, NL, CR} \cup OtherWhitespace
IsWhitespace(c) == c \in Whitespace

AllWhitespace(s) == \A i \in 1..Len(s) : IsWhitespace(s[i])
AnyNonWhitespace(s) == \E i \in 1..Len(s) : ~IsWhitespace(s[i])

StartsWith(s, p) == Len(p) <= Len(s) /\ SubSeq(s, 1, Len(p)) = p
EndsWithNL(s) == Len(s) > 0 /\ s[Len(s)] = NL

\* index of the first "\n" of s, 0 when there is none
FirstNL(s) ==
    IF \E i \in 1..Len(s) : s[i] = NL
    THEN CHOOSE i \in 1..Len(s) : s[i] = NL /\ \A j \in 1..(i - 1) : s[j] # NL
    ELSE 0

\* str::lines: split at "\n", a final "\n" ends the last line rather than
\* opening an empty one; one "\r" right before the "\n" belongs to the
\* terminator, a "\r" that ends the text does not
RECURSIVE Lines(_)
Lines(s) ==
    IF s = <<>> THEN <<>>
    ELSE LET k == FirstNL(s)
         IN IF k = 0 THEN <<s>>
            ELSE LET raw  == SubSeq(s, 1, k - 1)
                     line == IF Len(raw) > 0 /\ raw[Len(raw)] = CR
                             THEN SubSeq(raw, 1, Len(raw) - 1) ELSE raw
                 IN <<line>> \o Lines(SubSeq(s, k + 1, Len(s)))

\* [&str]::join("\n")
RECURSIVE Join(_)
Join(ls) ==
    IF ls = <<>> THEN <<>>
    ELSE IF Len(ls) = 1 THEN ls[1]
    ELSE ls[1] \o <<NL>> \o Join(Tail(ls))

\* line.chars().take_while(|c| c.is_whitespace())
RECURSIVE TakeWhileWhitespace(_)
TakeWhileWhitespace(line) ==
    IF line = <<>> \/ ~IsWhitespace(Head(line)) THEN <<>>
    ELSE <<Head(line)>> \o TakeWhileWhitespace(Tail(line))

\* line.chars().zip(prefix.chars()).take_while(|&(a, b)| a == b).map(|(_, b)| b)
RECURSIVE ZipTakeWhileEq(_, _)
ZipTakeWhileEq(line, prefix) ==
    IF line = <<>> \/ prefix = <<>> \/ Head(line) # Head(prefix) THEN <<>>
    ELSE <<Head(prefix)>> \o ZipTakeWhileEq(Tail(line), Tail(prefix))

\* str::trim_right, str::trim, str::trim_matches(|c| c == '\r' || c == '\n')
RECURSIVE TrimRightBy(_, _)
TrimRightBy(s, drop) ==
    IF s # <<>> /\ s[Len(s)] \in drop THEN TrimRightBy(SubSeq(s, 1, Len(s) - 1), drop)
    ELSE s
RECURSIVE TrimLeftBy(_, _)
TrimLeftBy(s, drop) ==
    IF s # <<>> /\ Head(s) \in drop THEN TrimLeftBy(Tail(s), drop) ELSE s
Newlines == {CR, NL}
TrimRight(s) == TrimRightBy(s, Whitespace)
Trim(s) == TrimLeftBy(TrimRightBy(s, Whitespace), Whitespace)
TrimMatchesNewline(s) == TrimLeftBy(TrimRightBy(s, Newlines), Newlines)

----------------------------------------------------------------------------
(* dedent (lib.rs 214-264).                                                *)

\* first loop: the leading whitespace of the first line that holds anything
\* but whitespace; the empty string when there is no such line
RECURSIVE DedentFirstPrefix(_)
DedentFirstPrefix(ls) ==
    IF ls = <<>> THEN <<>>
    ELSE LET whitespace == TakeWhileWhitespace(Head(ls))
         IN IF Len(whitespace) < Len(Head(ls)) THEN whitespace
            ELSE DedentFirstPrefix(Tail(ls))

\* second loop: over the lines that are not whitespace-only, shorten the
\* prefix to what it shares with the line
RECURSIVE DedentShrinkPrefix(_, _)
DedentShrinkPrefix(prefix, ls) ==
    IF ls = <<>> THEN prefix
    ELSE IF AllWhitespace(Head(ls)) THEN DedentShrinkPrefix(prefix, Tail(ls))
    ELSE LET whitespace == ZipTakeWhileEq(Head(ls), prefix)
         IN DedentShrinkPrefix(
                IF Len(whitespace) < Len(prefix) THEN whitespace ELSE prefix,
                Tail(ls))

DedentPrefix(s) == DedentShrinkPrefix(DedentFirstPrefix(Lines(s)), Lines(s))

\* the spec's reading of the rebuild pass: a whitespace-only line that
\* starts with the prefix keeps what follows the prefix
DedentLineKeepBlank(line, prefix) ==
    IF StartsWith(line, prefix)
    THEN SubSeq(line, Len(prefix) + 1, Len(line))
    ELSE <<>>

\* the closure of the rebuild pass, for one line
DedentLine(line, prefix) ==
    IF StartsWith(line, prefix) /\ AnyNonWhitespace(line)
    THEN SubSeq(line, Len(prefix) + 1, Len(line))
    ELSE <<>>

\* the rebuild pass: s.lines().map(..).collect::<Vec<&str>>()
DedentRebuild(s) ==
    LET ls == Lines(s)
        prefix == DedentPrefix(s)
    IN [i \in 1..Len(ls) |-> DedentLine(ls[i], prefix)]

dedent(s) ==
    LET result == Join(DedentRebuild(s))
    IN IF EndsWithNL(s) THEN Append(result, NL) ELSE result

----------------------------------------------------------------------------
(* The step context resolver and the step builders (lib.rs 198-209,        *)
(* 266-321).                                                               *)

StepTypes == {"Given", "When", "Then"}

\* a resolver whose "But" arm does not take the context
new_with_context_but(s, context) ==
    IF s \in StepTypes THEN Ok(s)
    ELSE IF s = "And" /\ IsSome(context) THEN Ok(context[2])
    ELSE IF s = "But" /\ IsSome(context) THEN Ok("Then")
    ELSE Panicked

\* StepType::new_with_context
new_with_context(s, context) ==
    CASE s = "Given" -> Ok("Given")
      [] s = "When" -> Ok("When")
      [] s = "Then" -> Ok("Then")
      [] s = "And" /\ IsSome(context) -> Ok(context[2])
      [] s = "But" /\ IsSome(context) -> Ok(context[2])
      [] OTHER -> Panicked

\* the vector returned by parse_tags without the repeated tokens
RECURSIVE parse_tags_unique_loop(_, _)
parse_tags_unique_loop(inner, tags) ==
    IF inner = <<>> THEN tags
    ELSE LET rule == Head(inner)
         IN IF rule.rule = "tag" /\ \A i \in 1..Len(tags) : tags[i] # rule.text
            THEN parse_tags_unique_loop(Tail(inner), Append(tags, rule.text))
            ELSE parse_tags_unique_loop(Tail(inner), tags)
parse_tags_unique(outer_rule) == parse_tags_unique_loop(outer_rule.inner, <<>>)

\* parse_tags (lib.rs 169-183): the text of every tag child, in order
RECURSIVE parse_tags_loop(_, _)
parse_tags_loop(inner, tags) ==
    IF inner = <<>> THEN tags
    ELSE LET rule == Head(inner)
         IN IF rule.rule = "tag"
            THEN parse_tags_loop(Tail(inner), Append(tags, rule.text))
            ELSE parse_tags_loop(Tail(inner), tags)

parse_tags(outer_rule) == parse_tags_loop(outer_rule.inner, <<>>)

\* row_from_inner (lib.rs 384-395): the trimmed text of every table_field
RECURSIVE row_from_inner(_)
row_from_inner(inner) ==
    IF inner = <<>> THEN <<>>
    ELSE LET p == Head(inner)
         IN IF p.rule = "table_field"
            THEN <<Trim(p.text)>> \o row_from_inner(Tail(inner))
            ELSE row_from_inner(Tail(inner))

\* the loop of Table::from over the lines of the datatable:
\* b is the TableBuilder, rows the local vector
RECURSIVE TableLoop(_, _, _)
TableLoop(inner, b, rows) ==
    IF inner = <<>> THEN [b EXCEPT !.rows = Set(rows)]
    ELSE LET p == Head(inner)
         IN CASE p.rule = "table_header" ->
                    TableLoop(Tail(inner),
                              [b EXCEPT !.header = Set(row_from_inner(p.inner))], rows)
              [] p.rule = "table_row" ->
                    TableLoop(Tail(inner), b, Append(rows, row_from_inner(p.inner)))
              [] OTHER -> TableLoop(Tail(inner), b, rows)

\* TableBuilder::build().expect("table to be build")
TableBuild(b) ==
    IF IsSet(b.header) /\ IsSet(b.rows) /\ IsSet(b.position)
    THEN Ok([header |-> b.header[2], rows |-> b.rows[2], position |-> b.position[2]])
    ELSE Panicked

\* impl From<Pair> for Table (lib.rs 377-413)
Table_from(rule) ==
    The({TableBuild(b) :
         b \in {TableLoop(rule.inner,
                          [header |-> Unset, rows |-> Unset, position |-> Set(rule.pos)],
                          <<>>)}})

\* the loop of Step::from_rule_with_context over the children of a step;
\* b is the StepBuilder, or Panicked once a child made the function panic
RECURSIVE StepLoop(_, _, _)
StepLoop(inner, context, b) ==
    IF inner = <<>> THEN Ok(b)
    ELSE LET rule == Head(inner)
         IN CASE rule.rule = "step_kw" ->
                    LET ty == new_with_context(rule.text, context)
                    IN IF IsPanic(ty) THEN Panicked
                       ELSE StepLoop(Tail(inner), context,
                                [b EXCEPT !.ty = Set(ty[2]),
                                          !.position = Set(rule.pos),
                                          !.raw_type = Set(rule.text)])
              [] rule.rule = "step_body" ->
                    StepLoop(Tail(inner), context, [b EXCEPT !.value = Set(rule.text)])
              [] rule.rule = "docstring" ->
                    \* rule.into_inner().next().expect("docstring value")
                    IF rule.inner = <<>> THEN Panicked
                    ELSE StepLoop(Tail(inner), context,
                             [b EXCEPT !.docstring =
                                 Set(Some(TrimMatchesNewline(TrimRight(
                                     dedent(Head(rule.inner).text)))))])
              [] rule.rule = "datatable" ->
                    The({IF IsPanic(datatable) THEN Panicked
                         ELSE StepLoop(Tail(inner), context,
                                  [b EXCEPT !.table = Set(Some(datatable[2]))]) :
                         datatable \in {Table_from(rule)}})
              [] OTHER -> Panicked

\* a builder field with #[builder(default)]: None when never set
OrDefault(f) == IF IsSet(f) THEN f[2] ELSE None

\* StepBuilder::build().expect("step to be built")
StepBuild(b) ==
    IF IsSet(b.ty) /\ IsSet(b.raw_type) /\ IsSet(b.value) /\ IsSet(b.position)
    THEN Ok([ty |-> b.ty[2], raw_type |-> b.raw_type[2], value |-> b.value[2],
             docstring |-> OrDefault(b.docstring), table |-> OrDefault(b.table),
             position |-> b.position[2]])
    ELSE Panicked

\* Step::from_rule_with_context (lib.rs 267-304)
from_rule_with_context(outer_rule, context) ==
    The({IF IsPanic(b) THEN Panicked ELSE StepBuild(b[2]) :
         b \in {StepLoop(outer_rule.inner, context,
                         [ty |-> Unset, raw_type |-> Unset, value |-> Unset,
                          docstring |-> Unset, table |-> Unset, position |-> Unset])}})

\* steps.last().map(|x| x.ty)
LastTy(steps) == IF steps = <<>> THEN None ELSE Some(steps[Len(steps)].ty)

\* the loop of Step::vec_from_rule: steps is the local vector
RECURSIVE VecLoop(_, _)
VecLoop(inner, steps) ==
    IF inner = <<>> THEN Ok(steps)
    ELSE LET p == Head(inner)
         IN IF p.rule = "step"
            THEN The({IF IsPanic(s) THEN Panicked
                      ELSE VecLoop(Tail(inner), Append(steps, s[2])) :
                      s \in {from_rule_with_context(p, LastTy(steps))}})
            ELSE VecLoop(Tail(inner), steps)

\* the steps of a vector of scenarios, one after the other
RECURSIVE StepsOf(_)
StepsOf(scs) == IF scs = <<>> THEN <<>> ELSE Head(scs).steps \o StepsOf(Tail(scs))

\* the steps built so far in this document: the Background's, then each Scenario's
StepsSoFar ==
    LET bg == IF IsSet(builder.background) /\ IsSome(builder.background[2])
              THEN builder.background[2][2].steps ELSE <<>>
    IN bg \o StepsOf(scenarios)

\* a vec_from_rule whose vector is not local: it starts from the steps of the
\* sequences built before and returns what it appended
vec_from_rule_carry(rule) ==
    The({IF IsPanic(r) THEN Panicked
         ELSE Ok(SubSeq(r[2], Len(StepsSoFar) + 1, Len(r[2]))) :
         r \in {VecLoop(rule.inner, StepsSoFar)}})

\* Step::vec_from_rule (lib.rs 306-320)
vec_from_rule(rule) == VecLoop(rule.inner, <<>>)

\* impl From<Pair> for Background (lib.rs 323-331)
Background_from(rule) ==
    The({IF IsPanic(steps) THEN Panicked
         ELSE Ok([steps |-> steps[2], position |-> rule.pos]) :
         steps \in {vec_from_rule(rule)}})

\* the loop of Examples::from; b is the ExamplesBuilder
RECURSIVE ExamplesLoop(_, _)
ExamplesLoop(inner, b) ==
    IF inner = <<>> THEN Ok(b)
    ELSE LET p == Head(inner)
         IN CASE p.rule = "datatable" ->
                    The({IF IsPanic(table) THEN Panicked
                         ELSE ExamplesLoop(Tail(inner), [b EXCEPT !.table = Set(table[2])]) :
                         table \in {Table_from(p)}})
              [] p.rule = "tags" ->
                    ExamplesLoop(Tail(inner), [b EXCEPT !.tags = Set(Some(parse_tags(p)))])
              [] OTHER -> ExamplesLoop(Tail(inner), b)

\* impl From<Pair> for Examples (lib.rs 421-442)
Examples_from(rule) ==
    The({IF IsPanic(b) THEN Panicked
         ELSE IF IsSet(b[2].table) /\ IsSet(b[2].position)
         THEN Ok([table |-> b[2].table[2], tags |-> OrDefault(b[2].tags),
                  position |-> b[2].position[2]])
         ELSE Panicked :
         b \in {ExamplesLoop(rule.inner,
                   [table |-> Unset, tags |-> Unset, position |-> Set(rule.pos)])}})

\* the loop of Scenario::from; b is the ScenarioBuilder
RECURSIVE ScenarioLoop(_, _)
ScenarioLoop(inner, b) ==
    IF inner = <<>> THEN Ok(b)
    ELSE LET p == Head(inner)
         IN CASE p.rule = "scenario_name" ->
                    ScenarioLoop(Tail(inner),
                        [b EXCEPT !.name = Set(p.text), !.position = Set(p.pos)])
              [] p.rule = "scenario_steps" ->
                    The({IF IsPanic(steps) THEN Panicked
                         ELSE ScenarioLoop(Tail(inner), [b EXCEPT !.steps = Set(steps[2])]) :
                         steps \in {vec_from_rule(p)}})
              [] p.rule = "examples" ->
                    The({IF IsPanic(examples) THEN Panicked
                         ELSE ScenarioLoop(Tail(inner),
                                  [b EXCEPT !.examples = Set(Some(examples[2]))]) :
                         examples \in {Examples_from(p)}})
              [] p.rule = "tags" ->
                    ScenarioLoop(Tail(inner), [b EXCEPT !.tags = Set(Some(parse_tags(p)))])
              [] OTHER -> ScenarioLoop(Tail(inner), b)

\* impl From<Pair> for Scenario (lib.rs 444-470)
Scenario_from(rule) ==
    The({IF IsPanic(b) THEN Panicked
         ELSE IF IsSet(b[2].name) /\ IsSet(b[2].steps) /\ IsSet(b[2].position)
         THEN Ok([name |-> b[2].name[2], steps |-> b[2].steps[2],
                  examples |-> OrDefault(b[2].examples), tags |-> OrDefault(b[2].tags),
                  position |-> b[2].position[2]])
         ELSE Panicked :
         b \in {ScenarioLoop(rule.inner,
                   [name |-> Unset, steps |-> Unset, examples |-> Unset,
                    tags |-> Unset, position |-> Unset])}})

\* the feature_description arm of Feature::from (lib.rs 346-353): what
\* builder.description is set to for the dedented text
DescriptionField(description) ==
    IF description # <<>> THEN Set(None) ELSE Set(Some(description))

\* FeatureBuilder::build().expect("feature to be built"), after .scenarios(scenarios)
FeatureBuild(b, scs) ==
    IF IsSet(b.name) /\ IsSet(b.position)
    THEN Ok([name |-> b.name[2], description |-> OrDefault(b.description),
             background |-> OrDefault(b.background), scenarios |-> scs,
             tags |-> OrDefault(b.tags), position |-> b.position[2]])
    ELSE Panicked

----------------------------------------------------------------------------
(* Parse trees: what the grammar engine hands to the builders.  A node is  *)
(* a record with its rule, its children (inner), its span (text) and its   *)
(* position (pos) where the builders read them.                            *)

\* every node of the model sits at the same (line, col); the claims do not
\* depend on positions
Pos0 == <<"line", "col">>

\* the characters of the texts handed to dedent: the four ASCII whitespace
\* characters of a feature file, one whitespace character outside them and
\* one character that is not whitespace
Chars == {SP, TAB, NL, CR, FF, "a"}
Texts(n) == UNION {[1..k -> Chars] : k \in 0..n}

\* the five step keywords of the grammar
Keywords == {"Given", "When", "Then", "And", "But"}

\* a step node: keyword, body, then an optional docstring or datatable
StepNode(kw, attached) ==
    [rule |-> "step",
     inner |-> <<[rule |-> "step_kw", text |-> kw, pos |-> Pos0],
                 [rule |-> "step_body", text |-> "a step"]>> \o attached]

\* a docstring node: its first child spans the text between the delimiters
DocstringNode(text) ==
    [rule |-> "docstring", inner |-> <<[rule |-> "docstring_value", text |-> text]>>]

PlainSteps == {StepNode(kw, <<>>) : kw \in Keywords}
StepSeqs(lo, hi) == UNION {[1..k -> PlainSteps] : k \in lo..hi}

\* a tags node: tag tokens, and children of other rules between them
TagChildren ==
    {[rule |-> "tag", text |-> "@a"], [rule |-> "tag", text |-> "@b"],
     [rule |-> "other", text |-> ""]}
TagsNodes(n) ==
    {[rule |-> "tags", inner |-> s] : s \in UNION {[1..k -> TagChildren] : k \in 1..n}}

\* a datatable node: one table_header line, then table_row lines, each line
\* holding as many table_field children as it has pipe-delimited fields
FieldTexts == {<<"x">>, <<SP, "x", SP>>}
TableFields == {[rule |-> "table_field", text |-> x] : x \in FieldTexts}
TableLines(rule) ==
    {[rule |-> rule, inner |-> fs] :
        fs \in UNION {[1..w -> TableFields] : w \in 1..MaxCols}}
TableNodes ==
    {[rule |-> "datatable", pos |-> Pos0, inner |-> <<h>> \o rs] :
        h \in TableLines("table_header"),
        rs \in UNION {[1..k -> TableLines("table_row")] : k \in 0..MaxRows}}

\* an examples node around a datatable, with or without tags
ExamplesNode(tagged, table) ==
    [rule |-> "examples", pos |-> Pos0,
     inner |-> (IF tagged
                THEN <<[rule |-> "tags", inner |-> <<[rule |-> "tag", text |-> "@a"]>>]>>
                ELSE <<>>) \o <<table>>]

\* the table of the documents of the Feature specification
SampleTable ==
    [rule |-> "datatable", pos |-> Pos0,
     inner |-> <<[rule |-> "table_header",
                  inner |-> <<[rule |-> "table_field", text |-> <<"a">>],
                              [rule |-> "table_field", text |-> <<"b">>]>>],
                 [rule |-> "table_row",
                  inner |-> <<[rule |-> "table_field", text |-> <<"1">>],
                              [rule |-> "table_field", text |-> <<"2">>]>>]>>]

\* a scenario node: optional tags, the name, the steps, optional examples
ScenarioNode(steps, extras) ==
    [rule |-> "scenario",
     inner |-> (IF extras
                THEN <<[rule |-> "tags", inner |-> <<[rule |-> "tag", text |-> "@b"]>>]>>
                ELSE <<>>)
               \o <<[rule |-> "scenario_name", text |-> "a scenario", pos |-> Pos0],
                    [rule |-> "scenario_steps", inner |-> steps]>>
               \o (IF extras THEN <<ExamplesNode(TRUE, SampleTable)>> ELSE <<>>)]

BackgroundNode(steps) == [rule |-> "background", pos |-> Pos0, inner |-> steps]

\* the feature's tags nodes and description spans of the Feature specification
DocTagsNodes ==
    {[rule |-> "tags", inner |-> <<[rule |-> "tag", text |-> "@a"]>>],
     [rule |-> "tags", inner |-> <<[rule |-> "tag", text |-> "@a"],
                                   [rule |-> "tag", text |-> "@a"]>>]}
DescTexts == {<<SP, SP>>, <<"a">>, <<SP, "a", NL, SP, SP, "a", NL>>}

\* the order of the children of the feature node: the rules that may follow
\* the child handled last ("main": none handled yet; "end": no child is left)
GrammarNext(last) ==
    CASE last = "main" -> {"tags", "feature_kw"}
      [] last = "tags" -> {"feature_kw"}
      [] last = "feature_kw" -> {"feature_body"}
      [] last = "feature_body" -> {"feature_description", "background", "scenario"}
      [] last = "feature_description" -> {"background", "scenario"}
      [] last = "background" -> {"scenario"}
      [] last = "scenario" -> {"scenario", "end"}
      [] OTHER -> {}

----------------------------------------------------------------------------
(* Feature::try_from and the loop of Feature::from (lib.rs 185-196,        *)
(* 333-374).  pc is "start" before the grammar engine ran, then the rule   *)
(* of the child handled last, and "done" once try_from has ended.          *)

FeatureIdle ==
    /\ pc = "idle"
    /\ builder = <<>>
    /\ scenarios = <<>>
    /\ outcome = "none"
    /\ feature = None
    /\ pair = [rule |-> "none"]

FeatureInit ==
    /\ pc = "start"
    /\ builder = <<>>
    /\ scenarios = <<>>
    /\ outcome = "none"
    /\ feature = None
    /\ pair = [rule |-> "none"]

\* FeatureParser::parse(Rule::main, &s)? returns the grammar engine's error
ParseErr ==
    /\ pc = "start"
    /\ pc' = "done"
    /\ outcome' = "Err"
    /\ UNCHANGED <<builder, scenarios, feature, pair>>

\* the grammar engine accepts: Feature::from starts on the feature node with
\* FeatureBuilder::default() and an empty scenarios vector
ParseOk ==
    /\ pc = "start"
    /\ pc' = "main"
    /\ builder' = [name |-> Unset, description |-> Unset, background |-> Unset,
                   tags |-> Unset, position |-> Unset]
    /\ scenarios' = <<>>
    /\ UNCHANGED <<outcome, feature, pair>>

\* the builder pass unwinds: try_from returns nothing
Unwind ==
    /\ pc' = "done"
    /\ outcome' = "Panic"
    /\ UNCHANGED <<builder, scenarios, feature>>

TagsArm ==
    /\ "tags" \in GrammarNext(pc)
    /\ \E node \in DocTagsNodes :
          /\ pair' = node
          /\ builder' = [builder EXCEPT !.tags = Set(Some(parse_tags(node)))]
    /\ pc' = "tags"
    /\ UNCHANGED <<scenarios, outcome, feature>>

FeatureKwArm ==
    /\ "feature_kw" \in GrammarNext(pc)
    /\ pair' = [rule |-> "feature_kw", pos |-> Pos0]
    /\ builder' = [builder EXCEPT !.position = Set(pair'.pos)]
    /\ pc' = "feature_kw"
    /\ UNCHANGED <<scenarios, outcome, feature>>

FeatureBodyArm ==
    /\ "feature_body" \in GrammarNext(pc)
    /\ pair' = [rule |-> "feature_body", text |-> "a feature"]
    /\ builder' = [builder EXCEPT !.name = Set(pair'.text)]
    /\ pc' = "feature_body"
    /\ UNCHANGED <<scenarios, outcome, feature>>

DescriptionArm ==
    /\ "feature_description" \in GrammarNext(pc)
    /\ \E text \in DescTexts :
          /\ pair' = [rule |-> "feature_description", text |-> text]
          /\ builder' = [builder EXCEPT !.description = DescriptionField(dedent(text))]
    /\ pc' = "feature_description"
    /\ UNCHANGED <<scenarios, outcome, feature>>

\* step nodes the document may still hold
StepsLeft == MaxSteps - Len(StepsSoFar)

BackgroundArm ==
    /\ "background" \in GrammarNext(pc)
    /\ \E steps \in StepSeqs(0, MaxSteps - 1) :
          \E background \in {Background_from(BackgroundNode(steps))} :
             /\ pair' = BackgroundNode(steps)
             /\ IF IsPanic(background) THEN Unwind
                ELSE /\ builder' = [builder EXCEPT !.background = Set(Some(background[2]))]
                     /\ pc' = "background"
                     /\ UNCHANGED <<scenarios, outcome, feature>>

ScenarioArm ==
    /\ "scenario" \in GrammarNext(pc)
    /\ Len(scenarios) < MaxScenarios
    /\ \E steps \in StepSeqs(1, StepsLeft), extras \in BOOLEAN :
          \E scenario \in {Scenario_from(ScenarioNode(steps, extras))} :
             /\ pair' = ScenarioNode(steps, extras)
             /\ IF IsPanic(scenario) THEN Unwind
                ELSE /\ scenarios' = Append(scenarios, scenario[2])
                     /\ pc' = "scenario"
                     /\ UNCHANGED <<builder, outcome, feature>>

\* the loop ends: builder.scenarios(scenarios).build().expect(..), wrapped in Ok
Build ==
    /\ "end" \in GrammarNext(pc)
    /\ \E built \in {FeatureBuild(builder, scenarios)} :
          IF IsPanic(built) THEN Unwind /\ UNCHANGED pair
          ELSE /\ feature' = Some(built[2])
               /\ outcome' = "Ok"
               /\ pc' = "done"
               /\ UNCHANGED <<builder, scenarios, pair>>

----------------------------------------------------------------------------
(* dedent applied to a text, and to its own result.                        *)

DedentIdle ==
    /\ dd_pc = "idle"
    /\ dd_in = <<>>
    /\ dd_prefix = <<>>
    /\ dd_lines = <<>>
    /\ dd_out = <<>>
    /\ dd_out2 = <<>>
    /\ dd_doc = None

DedentInit ==
    /\ dd_pc = "in"
    /\ dd_in \in Texts(MaxLen)
    /\ dd_prefix = <<>>
    /\ dd_lines = <<>>
    /\ dd_out = <<>>
    /\ dd_out2 = <<>>
    /\ dd_doc = None

DedentOnce ==
    /\ dd_pc = "in"
    /\ dd_prefix' = DedentPrefix(dd_in)
    /\ dd_lines' = DedentRebuild(dd_in)
    /\ dd_out' = dedent(dd_in)
    /\ dd_pc' = "once"
    /\ UNCHANGED <<dd_in, dd_out2, dd_doc>>

DedentTwice ==
    /\ dd_pc = "once"
    /\ dd_out2' = dedent(dd_out)
    /\ dd_pc' = "twice"
    /\ UNCHANGED <<dd_in, dd_prefix, dd_lines, dd_out, dd_doc>>

\* the docstring field of the Step built from a step node whose docstring
\* spans dd_in, once dedent(dd_in) is known
DedentOfStep ==
    /\ dd_pc = "once"
    /\ \E kw \in StepTypes :
          \E s \in {from_rule_with_context(StepNode(kw, <<DocstringNode(dd_in)>>), None)} :
             dd_doc' = IF IsOk(s) THEN s[2].docstring ELSE None
    /\ dd_pc' = "step"
    /\ UNCHANGED <<dd_in, dd_prefix, dd_lines, dd_out, dd_out2>>

----------------------------------------------------------------------------
(* Table::from on a datatable node: called directly, for the datatable of  *)
(* a step, or for the datatable of an examples section.                    *)

TableIdle ==
    /\ tb_pc = "idle"
    /\ tb_in = [rule |-> "none"]
    /\ tb_via = "none"
    /\ tb_out = Panicked

TableInit ==
    /\ tb_pc = "in"
    /\ tb_in \in TableNodes
    /\ tb_via = "none"
    /\ tb_out = Panicked

TableDirect ==
    /\ tb_pc = "in"
    /\ tb_out' = Table_from(tb_in)
    /\ tb_via' = "table"
    /\ tb_pc' = "built"
    /\ UNCHANGED tb_in

\* the table field of the Step built from a step node holding the datatable
TableOfStep ==
    /\ tb_pc = "in"
    /\ \E kw \in StepTypes :
          \E s \in {from_rule_with_context(StepNode(kw, <<tb_in>>), None)} :
             tb_out' = IF IsOk(s) /\ IsSome(s[2].table) THEN Ok(s[2].table[2])
                       ELSE Panicked
    /\ tb_via' = "step"
    /\ tb_pc' = "built"
    /\ UNCHANGED tb_in

\* the table field of the Examples built from an examples node holding the datatable
TableOfExamples ==
    /\ tb_pc = "in"
    /\ \E tagged \in BOOLEAN :
          \E e \in {Examples_from(ExamplesNode(tagged, tb_in))} :
             tb_out' = IF IsOk(e) THEN Ok(e[2].table) ELSE Panicked
    /\ tb_via' = "examples"
    /\ tb_pc' = "built"
    /\ UNCHANGED tb_in

----------------------------------------------------------------------------
(* parse_tags on a tags node.                                              *)

TagsIdle ==
    /\ tg_pc = "idle"
    /\ tg_in = [rule |-> "none"]
    /\ tg_out = <<>>

TagsInit ==
    /\ tg_pc = "in"
    /\ tg_in \in TagsNodes(MaxTags)
    /\ tg_out = <<>>

TagsParse ==
    /\ tg_pc = "in"
    /\ tg_out' = parse_tags(tg_in)
    /\ tg_pc' = "parsed"
    /\ UNCHANGED tg_in

----------------------------------------------------------------------------
(* Specifications.                                                         *)

Init == FeatureInit /\ DedentIdle /\ TableIdle /\ TagsIdle

Next ==
    \/ ParseErr /\ UNCHANGED <<dedent_vars, table_vars, tags_vars>>
    \/ ParseOk /\ UNCHANGED <<dedent_vars, table_vars, tags_vars>>
    \/ TagsArm /\ UNCHANGED <<dedent_vars, table_vars, tags_vars>>
    \/ FeatureKwArm /\ UNCHANGED <<dedent_vars, table_vars, tags_vars>>
    \/ FeatureBodyArm /\ UNCHANGED <<dedent_vars, table_vars, tags_vars>>
    \/ DescriptionArm /\ UNCHANGED <<dedent_vars, table_vars, tags_vars>>
    \/ BackgroundArm /\ UNCHANGED <<dedent_vars, table_vars, tags_vars>>
    \/ ScenarioArm /\ UNCHANGED <<dedent_vars, table_vars, tags_vars>>
    \/ Build /\ UNCHANGED <<dedent_vars, table_vars, tags_vars>>

\* Feature::try_from on a document
Spec == Init /\ [][Next]_vars

InitDedent == FeatureIdle /\ DedentInit /\ TableIdle /\ TagsIdle

NextDedent ==
    \/ DedentOnce /\ UNCHANGED <<feature_vars, table_vars, tags_vars>>
    \/ DedentTwice /\ UNCHANGED <<feature_vars, table_vars, tags_vars>>
    \/ DedentOfStep /\ UNCHANGED <<feature_vars, table_vars, tags_vars>>

\* dedent on every text of at most MaxLen characters
SpecDedent == InitDedent /\ [][NextDedent]_vars

InitTable == FeatureIdle /\ DedentIdle /\ TableInit /\ TagsIdle

NextTable ==
    \/ TableDirect /\ UNCHANGED <<feature_vars, dedent_vars, tags_vars>>
    \/ TableOfStep /\ UNCHANGED <<feature_vars, dedent_vars, tags_vars>>
    \/ TableOfExamples /\ UNCHANGED <<feature_vars, dedent_vars, tags_vars>>

\* Table::from on every datatable of at most MaxRows rows of at most MaxCols fields
SpecTable == InitTable /\ [][NextTable]_vars

InitTags == FeatureIdle /\ DedentIdle /\ TableIdle /\ TagsInit

NextTags == TagsParse /\ UNCHANGED <<feature_vars, dedent_vars, table_vars>>

\* parse_tags on every tags node of at most MaxTags children
SpecTags == InitTags /\ [][NextTags]_vars

----------------------------------------------------------------------------
(* Properties of dedent, checked under SpecDedent.                         *)

DedentApplied == dd_pc \in {"once", "twice", "step"}

\* C4: dedent is idempotent: for every text x, dedent(dedent(x)) = dedent(x).
C4_DedentIdempotent == dd_pc = "twice" => dd_out2 = dd_out

\* C5: dedent(x) ends with a newline if and only if x ends with a newline.
C5_TrailingNewlinePreserved ==
    DedentApplied => (EndsWithNL(dd_out) <=> EndsWithNL(dd_in))

\* C8, as claimed: every line that starts with the final prefix p is output
\* without its first Len(p) characters, every other line as the empty string,
\* and the number of lines is unchanged.
C8_RebuildAsClaimed ==
    DedentApplied =>
        /\ Len(dd_lines) = Len(Lines(dd_in))
        /\ \A i \in 1..Len(dd_lines) :
              LET line == Lines(dd_in)[i]
              IN dd_lines[i] = IF StartsWith(line, dd_prefix)
                               THEN SubSeq(line, Len(dd_prefix) + 1, Len(line))
                               ELSE <<>>

\* C8, amended: every line that holds a character other than whitespace
\* starts with the final prefix p and is output without its first Len(p)
\* characters; every empty or whitespace-only line is output as the empty
\* string; the number of lines is unchanged.
C8_RebuildBlanksWhitespaceLines ==
    DedentApplied =>
        /\ Len(dd_lines) = Len(Lines(dd_in))
        /\ \A i \in 1..Len(dd_lines) :
              LET line == Lines(dd_in)[i]
              IN IF AnyNonWhitespace(line)
                 THEN dd_prefix \o dd_lines[i] = line
                 ELSE dd_lines[i] = <<>>

\* a whitespace-only line that starts with the prefix and is longer than it
\* was rebuilt, next to a line that is not whitespace-only
C8_Witness ==
    /\ DedentApplied
    /\ dd_prefix # <<>>
    /\ \E i \in 1..Len(dd_lines) :
          LET line == Lines(dd_in)[i]
          IN /\ AllWhitespace(line)
             /\ StartsWith(line, dd_prefix)
             /\ Len(line) > Len(dd_prefix)
             /\ dd_lines[i] = <<>>

----------------------------------------------------------------------------
(* Properties of Table::from, checked under SpecTable.                     *)

\* C3: every row of a Table the builder produced, for a step or for an
\* examples section, has as many cells as the header.
C3_RowsMatchHeader ==
    (tb_pc = "built" /\ IsOk(tb_out)) =>
        \A i \in 1..Len(tb_out[2].rows) :
            Len(tb_out[2].rows[i]) = Len(tb_out[2].header)

----------------------------------------------------------------------------
(* Properties of parse_tags, checked under SpecTags.                       *)

IsTagChild(c) == c.rule = "tag"

\* the tag tokens of the tags node handed to parse_tags, in source order
TagTokens == SelectSeq(tg_in.inner, IsTagChild)

\* C9, as claimed: the result holds each distinct tag text at most once, and
\* holds the tag texts of the node in source order.
C9_OrderedUnique ==
    tg_pc = "parsed" =>
        /\ \A i, j \in 1..Len(tg_out) : i # j => tg_out[i] # tg_out[j]
        /\ {tg_out[i] : i \in 1..Len(tg_out)} = {TagTokens[i].text : i \in 1..Len(TagTokens)}
        /\ \A i, j \in 1..Len(tg_out) :
              i < j => \E k, l \in 1..Len(TagTokens) :
                          /\ k < l
                          /\ TagTokens[k].text = tg_out[i]
                          /\ TagTokens[l].text = tg_out[j]

\* C9, amended: the result holds the text of every tag token of the node,
\* in source order, one entry per token (a repeated token is repeated).
C9_EveryTokenInOrder ==
    tg_pc = "parsed" =>
        /\ Len(tg_out) = Len(TagTokens)
        /\ \A i \in 1..Len(tg_out) : tg_out[i] = TagTokens[i].text

\* parse_tags returned for a node that repeats a tag token after another one
C9_Witness ==
    /\ tg_pc = "parsed"
    /\ \E i, j, k \in 1..Len(TagTokens) :
          /\ i < j /\ j < k
          /\ TagTokens[i].text = TagTokens[k].text
          /\ TagTokens[j].text # TagTokens[i].text
    /\ Len(tg_out) = Len(TagTokens)

----------------------------------------------------------------------------
(* Properties of Feature::try_from and the step sequence builder, checked  *)
(* under Spec.                                                             *)

\* the child handled last is a step sequence: a Background or a Scenario
IsSeqNode == pair.rule \in {"background", "scenario"}

IsStepsChild(c) == c.rule = "scenario_steps"
IsStepChild(c) == c.rule = "step"
IsKeywordChild(c) == c.rule = "step_kw"

\* the step nodes of that sequence, in source order, and their raw keywords
PairSteps ==
    IF pair.rule = "background" THEN SelectSeq(pair.inner, IsStepChild)
    ELSE SelectSeq(SelectSeq(pair.inner, IsStepsChild)[1].inner, IsStepChild)
PairKeywords ==
    [i \in 1..Len(PairSteps) |-> SelectSeq(PairSteps[i].inner, IsKeywordChild)[1].text]

\* the Step vector built from that sequence, when the builder did not unwind
PairBuilt ==
    IF pair.rule = "background" THEN builder.background[2][2].steps
    ELSE scenarios[Len(scenarios)].steps

Continuation == {"And", "But"}
StartsWithContinuation == Len(PairKeywords) > 0 /\ PairKeywords[1] \in Continuation

\* the keyword of the nearest step j <= i whose keyword is Given, When or Then
NearestKind(kws, i) ==
    kws[CHOOSE j \in 1..i :
            /\ kws[j] \in StepTypes
            /\ \A k \in (j + 1)..i : kws[k] \notin StepTypes]

\* C1: in a step sequence whose first keyword is Given, When or Then, the
\* stored kind of step i is the kind named by the nearest step j <= i whose
\* raw keyword is Given, When or Then, and is one of Given, When, Then.
C1_KindIsNearestKeyword ==
    (IsSeqNode /\ Len(PairKeywords) > 0 /\ PairKeywords[1] \in StepTypes) =>
        /\ outcome # "Panic"
        /\ Len(PairBuilt) = Len(PairKeywords)
        /\ \A i \in 1..Len(PairBuilt) :
              /\ PairBuilt[i].ty \in StepTypes
              /\ PairBuilt[i].ty = NearestKind(PairKeywords, i)

\* the sequence Given, When, But was built as Given, When, When
C1_Witness ==
    /\ pair.rule = "scenario"
    /\ PairKeywords = <<"Given", "When", "But">>
    /\ outcome # "Panic"
    /\ [i \in 1..Len(PairBuilt) |-> PairBuilt[i].ty] = <<"Given", "When", "When">>

\* C2: a step sequence whose first step has the keyword And or But makes
\* the build end with an error value returned to the caller.
C2_ContextError ==
    (IsSeqNode /\ StartsWithContinuation) => outcome = "Err"

\* C6: the description is stored, as Some(text), exactly when the dedented
\* text of the description node is not empty.
C6_DescriptionStoredWhenNonEmpty ==
    pair.rule = "feature_description" =>
        (builder.description = Set(Some(dedent(pair.text)))
            <=> dedent(pair.text) # <<>>)

\* C7: try_from ends with a Feature or with an error value, with the
\* error only when the grammar engine rejected the text, before any child of
\* the tree was handled.
C7_NoPartialSuccess ==
    pc = "done" =>
        \/ outcome = "Ok" /\ IsSome(feature)
        \/ outcome = "Err" /\ ~IsSome(feature) /\ pair.rule = "none"

\* C10: the kind of a step depends on the keywords of its own sequence
\* only. A sequence that starts with And or But finds no current kind,
\* whatever was built before it; any other sequence is built into one Step
\* per step node, in source order, each with its raw keyword in raw_type and
\* its kind resolved within the sequence.
C10_ContextStaysInSequence ==
    IsSeqNode =>
        IF StartsWithContinuation
        THEN outcome = "Panic"
        ELSE /\ outcome # "Panic"
             /\ Len(PairBuilt) = Len(PairKeywords)
             /\ \A i \in 1..Len(PairBuilt) :
                   /\ PairBuilt[i].raw_type = PairKeywords[i]
                   /\ PairBuilt[i].ty = NearestKind(PairKeywords, i)

\* a Scenario that starts with And or But was handled after a Background and
\* an earlier Scenario that both hold steps
C10_Witness ==
    /\ pair.rule = "scenario"
    /\ StartsWithContinuation
    /\ IsSet(builder.background)
    /\ builder.background[2][2].steps # <<>>
    /\ Len(scenarios) >= 1
    /\ pc = "done"

====
